---- MODULE Spec2Model ----
(***************************************************************************)
(* A model of DSPBB's multirate kernels: Decimate, Expand, Interpolate and *)
(* Resample with its continuation token (Filtering/Interpolation.hpp), and *)
(* of two filter-design routines that fill coefficient buffers:            *)
(* HalfbandToHilbertEven (Filtering/FIR/BandTransforms.hpp) and the copy   *)
(* loop of FirLeastSquares (Filtering/FIRLeastSquares.hpp).                *)
(* Signals are sequences of integers; C++ index i is element i + 1 here.   *)
(* Positions are exact rationals <<numerator, denominator>>.               *)
(***************************************************************************)
EXTENDS Integers, Sequences, FiniteSets, TLC

VARIABLES
    pc,             \* which call the caller makes next
    input,          \* the caller's input signal
    rate,           \* Decimate/Expand rate
    expanded,       \* result of the last Expand call
    decimated,      \* result of the last Decimate call
    filter,         \* the original filter coefficients (hrFilter)
    numPhases,      \* polyphase.FilterCount()
    interp,         \* the last Interpolate call: its arguments and result
    sampleRates,    \* Resample's rate ratio, a rational
    firstInput,     \* where in input the buffer of the next Resample call begins
    produced,       \* output samples the stream had produced before the last call
    call,           \* the last Resample call: its arguments and result
    halfband,       \* the halfband filter given to HalfbandToHilbertEven
    hilbert,        \* the last HalfbandToHilbertEven call: its buffer and result
    halfFilter,     \* the half filter FirLeastSquares solved for
    coefficients    \* the last FirLeastSquares call: its buffer and result

vars == <<pc, input, rate, expanded, decimated, filter, numPhases, interp,
          sampleRates, firstInput, produced, call,
          halfband, hilbert, halfFilter, coefficients>>

rateVars == <<rate, expanded, decimated>>
resampleVars == <<sampleRates, firstInput, produced, call>>
designVars == <<halfband, hilbert, halfFilter, coefficients>>

(***************************************************************************)
(* Bounds of the model.                                                    *)
(***************************************************************************)
MaxInput == 3       \* longest input signal
MaxDecRate == 3     \* largest Decimate/Expand rate
MaxTaps == 3        \* longest filter
MaxPhases == 3      \* largest phase count
MaxChunk == 2       \* longest output chunk of one Interpolate/Resample call
MaxRateTerm == 3    \* largest numerator and denominator of sampleRates
MaxProduced == 8   \* a stream is followed until it has produced this many samples
MaxOut == 64        \* longest output of HalfbandToHilbertEven
MaxCoefficients == 6    \* longest coefficient buffer of FirLeastSquares

SampleValues == {1, 2}
TapValues == {1, 2}
FillValues == {0, 9}    \* what a caller's pre-sized output buffer may hold

SeqsUpTo(S, n) == UNION {[1..k -> S] : k \in 0..n}

Max(a, b) == IF a >= b THEN a ELSE b
Min(a, b) == IF a <= b THEN a ELSE b

\* s[i] of the C++ code, i counted from 0
At(s, i) == s[i + 1]

\* BasicSignalView::SubSignal(offset): the view from offset to the end
SubSignalFrom(s, offset) == [k \in 1..Max(0, Len(s) - offset) |-> s[k + offset]]

\* BasicSignalView::SubSignal(offset, count)
SubSignal(s, offset, count) == [k \in 1..count |-> s[k + offset]]

Reverse(s) == [k \in 1..Len(s) |-> s[Len(s) + 1 - k]]

Filled(n, v) == [k \in 1..n |-> v]

(***************************************************************************)
(* Writes to an output buffer are logged as [pos, val] in program order;   *)
(* a write with pos outside the buffer is undefined behaviour and leaves   *)
(* the buffer as it is here.                                               *)
(***************************************************************************)
\* the writes of log to position pos, as indices into log
WritesTo(log, pos) == {k \in 1..Len(log) : log[k].pos = pos}

\* the last element of a non-empty set of indices
Latest(ws) == CHOOSE k \in ws : \A m \in ws : m <= k

\* every element holds what was written to it last, or what it held
ApplyWrites(out, log) ==
    [j \in 1..Len(out) |->
        IF WritesTo(log, j - 1) = {} THEN out[j] ELSE log[Latest(WritesTo(log, j - 1))].val]

(***************************************************************************)
(* Decimate (Interpolation.hpp:22-31).                                     *)
(***************************************************************************)
DecimateSize(inputSize, r) == (inputSize + r - 1) \div r

DecimateStrideBug(r) == r + 1

\* readIdx += rate
DecimateStride(r) == r

\* The loop: output element k (from 0) is input[readIdx], readIdx = k * stride.
DecimateWrites(outputSize, in, r) ==
    [k \in 1..outputSize |->
        LET readIdx == (k - 1) * DecimateStride(r)
        IN [pos |-> k - 1, readIdx |-> readIdx,
            \* a read past the end of the input is undefined; 0 stands for it
            val |-> IF readIdx < Len(in) THEN At(in, readIdx) ELSE 0]]

\* In-place overload: the size assertion, then the loop.
Decimate(output, in, r) ==
    IF Len(output) # DecimateSize(Len(in), r)
    THEN [ok |-> FALSE, output |-> output, log |-> <<>>]
    ELSE LET log == DecimateWrites(Len(output), in, r)
         IN [ok |-> TRUE, output |-> ApplyWrites(output, log), log |-> log]

\* Allocating overload (Interpolation.hpp:33-40).
DecimateAlloc(in, r) ==
    Decimate(Filled(DecimateSize(Len(in), r), 0), in, r)

(***************************************************************************)
(* Expand (Interpolation.hpp:50-63).                                       *)
(***************************************************************************)
ExpandZerosFromBug(r) == r + 1

\* for (size_t i = rate; i > 1; --i)
ExpandZerosFrom(r) == r

RECURSIVE ExpandZeros(_, _)
ExpandZeros(writeIt, i) ==
    IF i > 1
    THEN <<[pos |-> writeIt, val |-> 0]>> \o ExpandZeros(writeIt + 1, i - 1)
    ELSE <<>>

RECURSIVE ExpandLoop(_, _, _, _)
ExpandLoop(in, r, i, writeIt) ==
    IF i > Len(in) THEN <<>>
    ELSE LET zeros == ExpandZeros(writeIt + 1, ExpandZerosFrom(r))
         IN <<[pos |-> writeIt, val |-> in[i]]>> \o zeros
            \o ExpandLoop(in, r, i + 1, writeIt + 1 + Len(zeros))

Expand(output, in, r) ==
    IF Len(output) # Len(in) * r
    THEN [ok |-> FALSE, output |-> output, log |-> <<>>]
    ELSE LET log == ExpandLoop(in, r, 1, 0)
         IN [ok |-> TRUE, output |-> ApplyWrites(output, log), log |-> log]

\* Allocating overload (Interpolation.hpp:65-72).
ExpandAlloc(in, r) == Expand(Filled(Len(in) * r, 0), in, r)



(***************************************************************************)
(* Collaborators the kernels call: the polyphase view, the dot product,    *)
(* the convolution length and intervals.                                   *)
(***************************************************************************)
\* PolyphaseView::PhaseSize(): ceil(F / P)
PhaseSize(h, P) == (Len(h) + P - 1) \div P

\* polyphase[i]: every P-th tap of the filter starting at tap i, reversed
Phase(h, P, i) == Reverse(DecimateAlloc(SubSignalFrom(h, i), P).output)

RECURSIVE DotProduct(_, _)
DotProduct(a, b) ==
    IF a = <<>> THEN 0 ELSE Head(a) * Head(b) + DotProduct(Tail(a), Tail(b))

\* ConvolutionLength(a, b, CONV_FULL)
ConvolutionLength(a, b) == a + b - 1

Interval(first, last) == [first |-> first, last |-> last]
Intersection(a, b) == [first |-> Max(a.first, b.first), last |-> Min(a.last, b.last)]
IntervalSize(a) == a.last - a.first
IntervalMinus(a, n) == [first |-> a.first - n, last |-> a.last - n]

(***************************************************************************)
(* Interpolate (Interpolation.hpp:89-125).                                 *)
(***************************************************************************)
InterpolateInputIdxBug(hrInputIdx, hrFilterSize, P, lrPhaseSize) ==
    (hrInputIdx + hrFilterSize - 1) \div P - lrPhaseSize

\* lrInputIdx = (hrInputIdx + hrFilterSize - 1) / rate - lrPhaseSize + 1
InterpolateInputIdx(hrInputIdx, hrFilterSize, P, lrPhaseSize) ==
    (hrInputIdx + hrFilterSize - 1) \div P - lrPhaseSize + 1

InterpolateWritesBug(count) == count >= 0

\* if (lrInputProductInterval.Size() > 0)
InterpolateWrites(count) == count > 0

\* One iteration of the loop, for absolute high-rate index hrOutputIdx.
InterpolateSample(lrInput, h, P, hrOutputIdx) ==
    LET hrFilterSize == Len(h)
        lrPhaseSize == PhaseSize(h, P)
        hrInputIdx == 1 - hrFilterSize + hrOutputIdx
        lrInputIdx == InterpolateInputIdx(hrInputIdx, hrFilterSize, P, lrPhaseSize)
        polyphaseIdx == (hrInputIdx + hrFilterSize - 1) % P
        phase == Phase(h, P, polyphaseIdx)
        inputSpan == Interval(0, Len(lrInput))
        lrInputInterval == Interval(lrInputIdx, lrInputIdx + lrPhaseSize)
        lrPhaseInterval == Interval(lrInputInterval.last - Len(phase), lrInputInterval.last)
        lrInputProductInterval ==
            Intersection(inputSpan, Intersection(lrInputInterval, lrPhaseInterval))
        lrPhaseProductInterval == IntervalMinus(lrInputProductInterval, lrInputIdx)
        count == IntervalSize(lrInputProductInterval)
    IN IF InterpolateWrites(count)
       THEN [written |-> TRUE,
             window |-> lrInputProductInterval,
             val |-> DotProduct(
                 SubSignal(lrInput, lrInputProductInterval.first, count),
                 SubSignal(phase, lrPhaseProductInterval.first - lrPhaseSize + Len(phase),
                           count))]
       ELSE [written |-> FALSE, window |-> lrInputProductInterval, val |-> 0]

RECURSIVE InterpolateLoop(_, _, _, _, _, _)
InterpolateLoop(lrInput, h, P, hrOffset, hrOutputIdx, hrOutputSize) ==
    IF hrOutputIdx >= hrOffset + hrOutputSize THEN <<>>
    ELSE LET s == InterpolateSample(lrInput, h, P, hrOutputIdx)
             rest == InterpolateLoop(lrInput, h, P, hrOffset, hrOutputIdx + 1, hrOutputSize)
         IN IF s.written
            THEN <<[pos |-> hrOutputIdx - hrOffset, val |-> s.val]>> \o rest
            ELSE rest

\* In-place overload: hrOutput is the caller's buffer as it is before the call.
Interpolate(hrOutput, lrInput, h, P, hrOffset) ==
    LET hrOutputMaxSize == ConvolutionLength(Len(lrInput) * P, Len(h))
    IN IF ~(hrOffset + Len(hrOutput) <= hrOutputMaxSize)
       THEN [ok |-> FALSE, output |-> hrOutput, log |-> <<>>]
       ELSE LET log == InterpolateLoop(lrInput, h, P, hrOffset, hrOffset, Len(hrOutput))
            IN [ok |-> TRUE, output |-> ApplyWrites(hrOutput, log), log |-> log]

\* Allocating overload (Interpolation.hpp:127-138): out(hrLength, R(0)).
InterpolateAlloc(lrInput, h, P, hrOffset, hrLength) ==
    Interpolate(Filled(hrLength, 0), lrInput, h, P, hrOffset)

(***************************************************************************)
(* Exact rationals (Math/Rational.hpp): <<numerator, denominator>> in      *)
(* lowest terms with a positive denominator.                               *)
(***************************************************************************)
Abs(a) == IF a < 0 THEN -a ELSE a

RECURSIVE GCD(_, _)
GCD(a, b) == IF b = 0 THEN a ELSE GCD(b, a % b)

\* Rational{num, den}, den # 0
Rational(num, den) ==
    LET g == GCD(Abs(num), Abs(den))
        sgn == IF den < 0 THEN -1 ELSE 1
    IN <<sgn * (num \div g), sgn * (den \div g)>>

Numerator(r) == r[1]
Denominator(r) == r[2]
RInt(k) == <<k, 1>>
RMul(a, b) == Rational(a[1] * b[1], a[2] * b[2])
RDiv(a, b) == Rational(a[1] * b[2], a[2] * b[1])
RAdd(a, b) == Rational(a[1] * b[2] + b[1] * a[2], a[2] * b[2])
RSub(a, b) == Rational(a[1] * b[2] - b[1] * a[2], a[2] * b[2])
RLess(a, b) == a[1] * b[2] < b[1] * a[2]
RLeq(a, b) == a[1] * b[2] <= b[1] * a[2]
RFloor(a) == a[1] \div a[2]
RFrac(a) == Rational(a[1] % a[2], a[2])

(***************************************************************************)
(* namespace resample (Interpolation.hpp:153-266).                         *)
(***************************************************************************)
\* ResamplingLength(..., CONV_FULL); sampleRates # 0 and numPhases # 0
ResamplingLength(inputSize, filterSize, P, s) ==
    LET interpolatedSize == P * inputSize
        filteredInterpolatedSize == ConvolutionLength(interpolatedSize, filterSize)
    IN RDiv(RDiv(RInt(filteredInterpolatedSize), s), RInt(P))

ChangeSampleRate(sourceRate, targetRate, sample) ==
    RMul(sample, Rational(targetRate, sourceRate))

FirstWeightBug(t) == Denominator(t)

\* firstWeight = t.Denominator() - t.Numerator()
FirstWeight(t) == Denominator(t) - Numerator(t)

InputIndex2Sample(inputIndex, P) ==
    LET indexFrac == RFrac(inputIndex)
        firstPhase == RFloor(RMul(indexFrac, RInt(P)))
        secondPhase == (firstPhase + 1) % P
        t == RFrac(RMul(indexFrac, RInt(P)))
        secondWeight == Numerator(t)
        firstWeight == FirstWeight(t)
        firstIndex == RFloor(inputIndex)
        secondIndex == IF secondPhase = 0 THEN firstIndex + 1 ELSE firstIndex
    IN <<[inputIndex |-> firstIndex, phaseIndex |-> firstPhase, weight |-> firstWeight],
         [inputIndex |-> secondIndex, phaseIndex |-> secondPhase, weight |-> secondWeight]>>

\* desiredFirst = ptrdiff_t(inputReverseFirst) - filter.Size() + 1
DesiredFirst(inputReverseFirst, filterSize) == inputReverseFirst - filterSize + 1

DesiredLastBug(inputReverseFirst) == inputReverseFirst

\* desiredLast = ptrdiff_t(inputReverseFirst) + 1
DesiredLast(inputReverseFirst) == inputReverseFirst + 1

PossibleLastBug(inputSize, desiredLast) == Min(inputSize - 1, desiredLast)

\* possibleLast = std::min(ptrdiff_t(input.Size()), desiredLast)
PossibleLast(inputSize, desiredLast) == Min(inputSize, desiredLast)

\* ok is the assertion count >= 0; the sub-views and their dot product follow it.
DotProductSample(in, phase, inputReverseFirst) ==
    LET desiredFirst == DesiredFirst(inputReverseFirst, Len(phase))
        desiredLast == DesiredLast(inputReverseFirst)
        possibleFirst == Max(0, desiredFirst)
        possibleLast == PossibleLast(Len(in), desiredLast)
        count == possibleLast - possibleFirst
        offset == possibleFirst - desiredFirst
    IN [ok |-> count >= 0,
        desiredFirst |-> desiredFirst,
        first |-> possibleFirst,
        count |-> count,
        offset |-> offset,
        val |-> IF count >= 0
                THEN DotProduct(SubSignal(in, possibleFirst, count),
                                SubSignal(phase, offset, count))
                ELSE 0]

ContinuationOffsetBug(filterSize, P) == Rational(filterSize, P)

\* convolutionOffset = Rational{ filterSize - 1, numPhases }
ContinuationOffset(filterSize, P) == Rational(filterSize - 1, P)

ContinuationStartBug(firstInputSample, convolutionOffset) == convolutionOffset

\* inputStartPoint = frac(firstInputSample) + convolutionOffset
ContinuationStart(firstInputSample, convolutionOffset) ==
    RAdd(RFrac(firstInputSample), convolutionOffset)

ContinuationWholeBug(firstInputSample) == RFloor(firstInputSample) + 1

\* firstInputSampleWhole = floor(firstInputSample)
ContinuationWhole(firstInputSample) == RFloor(firstInputSample)

ContinuationClampsBug(firstInputSample) == RLeq(firstInputSample, RInt(1))

\* if (firstInputSample <= 0ll)
ContinuationClamps(firstInputSample) == RLeq(firstInputSample, RInt(0))

Continuation(nextOutputSample, filterSize, P, s) ==
    LET nextInputSample == ChangeSampleRate(Denominator(s), Numerator(s), nextOutputSample)
        convolutionOffset == ContinuationOffset(filterSize, P)
        firstInputSample == RSub(nextInputSample, convolutionOffset)
    IN IF ContinuationClamps(firstInputSample)
       THEN [firstInputSample |-> 0, startPoint |-> nextOutputSample]
       ELSE LET inputStartPoint == ContinuationStart(firstInputSample, convolutionOffset)
                outputStartPoint ==
                    ChangeSampleRate(Numerator(s), Denominator(s), inputStartPoint)
            IN [firstInputSample |-> ContinuationWhole(firstInputSample),
                startPoint |-> outputStartPoint]

\* inputIndex = ChangeSampleRate(sampleRates.Denominator(), sampleRates.Numerator(), outputIndex)
ResampleInputIndex(s, outputIndex) ==
    ChangeSampleRate(Denominator(s), Numerator(s), outputIndex)

\* One candidate: where it is anchored, its phase and weight, and what
\* DotProductSample made of it (d).
CandidateOf(loc, d) ==
    [inputIndex |-> loc.inputIndex, phaseIndex |-> loc.phaseIndex,
     weight |-> loc.weight, ok |-> d.ok, desiredFirst |-> d.desiredFirst,
     first |-> d.first, count |-> d.count, offset |-> d.offset, val |-> d.val]

\* DotProductSample(input, polyphase[loc.phaseIndex], loc.inputIndex)
Candidate(in, h, P, loc) ==
    CandidateOf(loc, DotProductSample(in, Phase(h, P, loc.phaseIndex), loc.inputIndex))

BlendBug(inputIndex, first, second) ==
    [inputIndex |-> inputIndex, first |-> first, second |-> second,
     ok |-> first.ok /\ second.ok,
     val |-> Rational(first.val * second.weight + second.val * first.weight,
                      first.weight + second.weight)]

\* *outputIt = (first * firstWeight + second * secondWeight) / (firstWeight + secondWeight)
Blend(inputIndex, first, second) ==
    [inputIndex |-> inputIndex, first |-> first, second |-> second,
     ok |-> first.ok /\ second.ok,
     val |-> Rational(first.val * first.weight + second.val * second.weight,
                      first.weight + second.weight)]

BlendCandidates(in, h, P, inputIndex, locs) ==
    Blend(inputIndex, Candidate(in, h, P, locs[1]), Candidate(in, h, P, locs[2]))

\* One iteration of Resample's loop (Interpolation.hpp:292-298).
ResampleSample(in, h, P, s, outputIndex) ==
    BlendCandidates(in, h, P, ResampleInputIndex(s, outputIndex),
                    InputIndex2Sample(ResampleInputIndex(s, outputIndex), P))

\* The loop: it stops at the first sample whose DotProductSample assertion fails.
RECURSIVE ResampleLoop(_, _, _, _, _, _)
RECURSIVE ResampleLoopAfter(_, _, _, _, _, _, _)
ResampleLoopAfter(smp, in, h, P, s, outputIndex, left) ==
    IF smp.ok
    THEN <<smp>> \o ResampleLoop(in, h, P, s, RAdd(outputIndex, RInt(1)), left - 1)
    ELSE <<smp>>

ResampleLoop(in, h, P, s, outputIndex, left) ==
    IF left = 0 THEN <<>>
    ELSE ResampleLoopAfter(ResampleSample(in, h, P, s, outputIndex),
                           in, h, P, s, outputIndex, left)

ResampleFirstIndexBug(startPoint) == RAdd(startPoint, RInt(1))

\* auto outputIndex = startPoint
ResampleFirstIndex(startPoint) == startPoint

NoToken == [firstInputSample |-> 0, startPoint |-> <<0, 1>>]

\* assert(sampleRates >= 0ll)
RatesAssert(s) == RLeq(RInt(0), s)

\* assert(startPoint + int64_t(output.Size()) < maxLength)
LengthAssert(startPoint, n, maxLength) == RLess(RAdd(startPoint, RInt(n)), maxLength)

\* the samples written before the loop ended
ResampleLog(samples) ==
    [k \in 1..Cardinality({j \in 1..Len(samples) : samples[j].ok}) |->
        [pos |-> k - 1, val |-> samples[k].val]]

\* What a call that passed the precondition assertions leaves: the loop ran to
\* the end and Continuation is returned, or an assertion in it failed.
ResampleResult(output, samples, log, token) ==
    [status |-> IF Len(log) = Len(output) THEN "ok" ELSE "assert count",
     output |-> ApplyWrites(output, log),
     log |-> log,
     samples |-> samples,
     token |-> IF Len(log) = Len(output) THEN token ELSE NoToken]

ResampleFailed(output, status) ==
    [status |-> status, output |-> output, log |-> <<>>, samples |-> <<>>,
     token |-> NoToken]

ResampleRun(output, samples, token) ==
    ResampleResult(output, samples, ResampleLog(samples), token)

(***************************************************************************)
(* Resample (Interpolation.hpp:278-302). Dividing by sampleRates = 0 in    *)
(* ResamplingLength leaves maxLength undefined: divByZero is then the      *)
(* outcome of the assertion that compares with it.                         *)
(***************************************************************************)
Resample(output, in, h, P, s, startPoint, divByZero) ==
    IF ~RatesAssert(s) THEN ResampleFailed(output, "assert sampleRates")
    ELSE IF ~RLeq(RInt(0), startPoint) THEN ResampleFailed(output, "assert startPoint")
    ELSE IF ~(P > 0) THEN ResampleFailed(output, "assert FilterCount")
    ELSE IF ~(IF Numerator(s) = 0 THEN divByZero
              ELSE LengthAssert(startPoint, Len(output),
                                ResamplingLength(Len(in), Len(h), P, s)))
         THEN ResampleFailed(output, "assert maxLength")
    ELSE ResampleRun(output,
                     ResampleLoop(in, h, P, s, ResampleFirstIndex(startPoint), Len(output)),
                     Continuation(RAdd(startPoint, RInt(Len(output))), Len(h), P, s))

(***************************************************************************)
(* HalfbandToHilbertEven (FIR/BandTransforms.hpp:102-148) with its kernel.  *)
(***************************************************************************)
kernelSize == 32

kernel ==
    <<2, 0, -2, 0, 2, 0, -2, 0,
      2, 0, -2, 0, 2, 0, -2, 0,
      2, 0, -2, 0, 2, 0, -2, 0,
      2, 0, -2, 0, 2, 0, -2, 0>>

kernelCenter == kernelSize \div 2 - 1
maxSizeSingleStep == kernelSize - 1

\* Multiply(out, a, b, length): out[i] = a[i] * b[i]
Multiply(length, a, b) == [k \in 1..length |-> a[k] * b[k]]

HilbertOutOffsetBug(tap) == tap \div 2 + 1

\* out.begin() + (tap + 1) / 2
HilbertOutOffset(tap) == (tap + 1) \div 2

\* Decimate(view of out at outOffset of outSize elements, scratchRegion, 2): ok
\* is Decimate's size assertion, writes are its writes as positions of out.
HilbertDecimated(outOffset, outSize, d) ==
    [offset |-> outOffset, size |-> outSize, ok |-> d.ok,
     writes |-> [k \in 1..Len(d.log) |->
                    [pos |-> outOffset + d.log[k].pos, val |-> d.log[k].val]]]

HilbertChunk(outOffset, outSize, scratchRegion) ==
    HilbertDecimated(outOffset, outSize, Decimate(Filled(outSize, 0), scratchRegion, 2))

\* if (halfband.Size() <= maxSizeSingleStep)
HilbertSingleStep(outSize, hb) ==
    <<HilbertChunk(0, outSize,
                   Multiply(Len(hb), hb,
                            SubSignal(kernel, kernelCenter - Len(hb) \div 2, Len(hb))))>>

\* the chunk before the first whole kernel
HilbertFirstChunk(hb, tap) ==
    HilbertChunk(0, (tap + 1) \div 2,
                 Multiply(tap, SubSignal(hb, 0, tap), SubSignalFrom(kernel, kernelSize - tap)))

\* for (; tap + kernelSize < filterSize; tap += kernelSize), then the last chunk
RECURSIVE HilbertLoop(_, _)
HilbertLoop(hb, tap) ==
    IF tap + kernelSize < Len(hb)
    THEN <<HilbertChunk(HilbertOutOffset(tap), (kernelSize + 1) \div 2,
                        Multiply(kernelSize, SubSignal(hb, tap, kernelSize), kernel))>>
         \o HilbertLoop(hb, tap + kernelSize)
    ELSE <<HilbertChunk(HilbertOutOffset(tap), (Len(hb) - tap + 1) \div 2,
                        Multiply(Len(hb) - tap, SubSignal(hb, tap, Len(hb) - tap),
                                 SubSignal(kernel, 0, Len(hb) - tap)))>>

\* tap = (filterSize / 2 - kernelCenter) % kernelSize
HilbertFirstTap(filterSize) == (filterSize \div 2 - kernelCenter) % kernelSize

HilbertChunked(hb, tap) == <<HilbertFirstChunk(hb, tap)>> \o HilbertLoop(hb, tap)

\* the chunks up to the first whose Decimate assertion fails
RECURSIVE HilbertRan(_)
HilbertRan(chunks) ==
    IF chunks = <<>> THEN <<>>
    ELSE IF Head(chunks).ok THEN <<Head(chunks)>> \o HilbertRan(Tail(chunks))
    ELSE <<Head(chunks)>>

RECURSIVE HilbertWrites(_)
HilbertWrites(chunks) ==
    IF chunks = <<>> THEN <<>> ELSE Head(chunks).writes \o HilbertWrites(Tail(chunks))

HilbertResult(out, chunks) ==
    [status |-> IF \A k \in 1..Len(chunks) : chunks[k].ok THEN "ok" ELSE "assert Decimate",
     output |-> ApplyWrites(out, HilbertWrites(chunks)),
     chunks |-> chunks]

HalfbandToHilbertEven(out, hb) ==
    IF Len(out) % 2 # 0
    THEN [status |-> "assert even", output |-> out, chunks |-> <<>>]
    ELSE IF Len(out) * 2 - 1 # Len(hb)
    THEN [status |-> "assert size", output |-> out, chunks |-> <<>>]
    ELSE IF Len(hb) <= maxSizeSingleStep
    THEN HilbertResult(out, HilbertRan(HilbertSingleStep(Len(out), hb)))
    ELSE HilbertResult(out, HilbertRan(HilbertChunked(hb, HilbertFirstTap(Len(hb)))))

(***************************************************************************)
(* FirLeastSquares (FIRLeastSquares.hpp:61-78): the half filter is what    *)
(* the solver returned, L values; the loop copies it into coefficients.    *)
(***************************************************************************)
\* L = (coefficients.Size() + 1) / 2
HalfFilterSize(size) == (size + 1) \div 2

\* coefficients[i] = halfFilter(L - i - 1); coefficients[i + L - 1] = halfFilter[i]
RECURSIVE LeastSquaresLoop(_, _, _)
LeastSquaresLoop(hf, L, i) ==
    IF i < L
    THEN <<[pos |-> i, val |-> At(hf, L - i - 1)], [pos |-> i + L - 1, val |-> At(hf, i)]>>
         \o LeastSquaresLoop(hf, L, i + 1)
    ELSE <<>>

LeastSquaresWritten(coeffs, log) == [output |-> ApplyWrites(coeffs, log), log |-> log]

FirLeastSquares(coeffs, hf) ==
    LeastSquaresWritten(coeffs, LeastSquaresLoop(hf, HalfFilterSize(Len(coeffs)), 0))

(***************************************************************************)
(* What the variables hold before the call they record has been made.      *)
(***************************************************************************)
NoCall == [ok |-> TRUE, output |-> <<>>, log |-> <<>>]
NoInterp == [hrOffset |-> 0, before |-> <<>>, result |-> NoCall]
NoResample ==
    [startPoint |-> <<0, 1>>, length |-> 0, firstInput |-> 0,
     result |-> [status |-> "none", output |-> <<>>, log |-> <<>>, samples |-> <<>>,
                 token |-> NoToken]]
NoHilbert == [before |-> <<>>, result |-> [status |-> "none", output |-> <<>>, chunks |-> <<>>]]
NoLeastSquares == [before |-> <<>>, result |-> [output |-> <<>>, log |-> <<>>]]

(***************************************************************************)
(* The integer rate changers as a state machine: the caller expands its    *)
(* input into a pre-sized buffer and decimates the result again, or        *)
(* decimates the input directly.                                           *)
(***************************************************************************)
InitRate ==
    /\ pc = "start"
    /\ input \in SeqsUpTo(SampleValues, MaxInput)
    /\ rate \in 1..MaxDecRate
    /\ expanded = NoCall
    /\ decimated = NoCall
    /\ filter = <<>>
    /\ numPhases = 0
    /\ interp = NoInterp
    /\ sampleRates = <<1, 1>>
    /\ firstInput = 0
    /\ produced = 0
    /\ call = NoResample
    /\ halfband = <<>>
    /\ hilbert = NoHilbert
    /\ halfFilter = <<>>
    /\ coefficients = NoLeastSquares

ExpandCall ==
    /\ pc = "start"
    /\ \E fill \in FillValues :
          expanded' = Expand(Filled(Len(input) * rate, fill), input, rate)
    /\ pc' = "expanded"
    /\ UNCHANGED <<input, rate, decimated, filter, numPhases, interp, resampleVars, designVars>>

DecimateExpanded ==
    /\ pc = "expanded"
    /\ expanded.ok
    /\ decimated' = DecimateAlloc(expanded.output, rate)
    /\ pc' = "roundtrip"
    /\ UNCHANGED <<input, rate, expanded, filter, numPhases, interp, resampleVars, designVars>>

DecimateCall ==
    /\ pc = "start"
    /\ \E fill \in FillValues :
          decimated' = Decimate(Filled(DecimateSize(Len(input), rate), fill), input, rate)
    /\ pc' = "decimated"
    /\ UNCHANGED <<input, rate, expanded, filter, numPhases, interp, resampleVars, designVars>>

NextRate == ExpandCall \/ DecimateExpanded \/ DecimateCall

SpecRate == InitRate /\ [][NextRate]_vars

(***************************************************************************)
(* Interpolate as a state machine: the caller asks for any window          *)
(* (hrOffset, length) of the virtual high-rate signal, in a buffer that    *)
(* holds zeros (the allocating overload) or whatever it held before.       *)
(***************************************************************************)
Filters == SeqsUpTo(TapValues, MaxTaps) \ {<<>>}

InitInterp ==
    /\ pc = "start"
    /\ input \in SeqsUpTo(SampleValues, MaxInput)
    /\ filter \in Filters
    /\ numPhases \in 1..MaxPhases
    /\ rate = 0
    /\ expanded = NoCall
    /\ decimated = NoCall
    /\ interp = NoInterp
    /\ sampleRates = <<1, 1>>
    /\ firstInput = 0
    /\ produced = 0
    /\ call = NoResample
    /\ halfband = <<>>
    /\ hilbert = NoHilbert
    /\ halfFilter = <<>>
    /\ coefficients = NoLeastSquares

InterpolateCall ==
    /\ pc = "start"
    /\ \E hrOffset \in 0..ConvolutionLength(Len(input) * numPhases, Len(filter)),
          hrLength \in 0..MaxChunk, fill \in FillValues :
          interp' = [hrOffset |-> hrOffset,
                     before |-> Filled(hrLength, fill),
                     result |-> Interpolate(Filled(hrLength, fill), input, filter,
                                            numPhases, hrOffset)]
    /\ pc' = "interpolated"
    /\ UNCHANGED <<input, filter, numPhases, rateVars, resampleVars, designVars>>

NextInterp == InterpolateCall

SpecInterp == InitInterp /\ [][NextInterp]_vars

(***************************************************************************)
(* Resample as a state machine: a stream is resampled chunk by chunk. The  *)
(* first call gets the whole input and the caller's start point; each      *)
(* later call gets the input from the sample the last token named on, and  *)
(* the token's start point. A failed assertion ends the program.           *)
(***************************************************************************)
Ramp(a, n) == [k \in 1..n |-> a + k - 1]
Inputs == {Ramp(a, n) : a \in SampleValues, n \in 0..MaxInput}
RampFilters == {Ramp(a, n) : a \in TapValues, n \in 1..MaxTaps}
Rates == {Rational(n, d) : n \in 0..MaxRateTerm, d \in 1..MaxRateTerm} \cup {<<-1, 1>>}
\* the outcomes of comparing with an undefined maxLength
DivByZeroOutcomes == IF Numerator(sampleRates) = 0 THEN BOOLEAN ELSE {FALSE}
StartPoints == {<<-1, 1>>, <<0, 1>>}

InitResample ==
    /\ pc = "start"
    /\ input \in Inputs
    /\ filter \in RampFilters
    /\ numPhases \in 0..MaxPhases
    /\ sampleRates \in Rates
    /\ firstInput = 0
    /\ produced = 0
    /\ call = NoResample
    /\ rate = 0
    /\ expanded = NoCall
    /\ decimated = NoCall
    /\ interp = NoInterp
    /\ halfband = <<>>
    /\ hilbert = NoHilbert
    /\ halfFilter = <<>>
    /\ coefficients = NoLeastSquares

\* the state a call leaves, r being what Resample returned
AfterResample(startPoint, n, r) ==
    /\ call' = [startPoint |-> startPoint, length |-> n, firstInput |-> firstInput,
                result |-> r]
    /\ firstInput' = firstInput + r.token.firstInputSample
    /\ pc' = IF r.status = "ok" THEN "streaming" ELSE "aborted"

ResampleFirst ==
    /\ pc = "start"
    /\ \E startPoint \in StartPoints, n \in 0..MaxChunk, divByZero \in DivByZeroOutcomes :
          AfterResample(startPoint, n,
                        Resample(Filled(n, <<0, 1>>), input, filter, numPhases,
                                 sampleRates, startPoint, divByZero))
    /\ produced' = 0
    /\ UNCHANGED <<input, filter, numPhases, sampleRates, rateVars, interp, designVars>>

ResampleNext ==
    /\ pc = "streaming"
    /\ produced + call.length <= MaxProduced
    /\ \E n \in 0..MaxChunk, divByZero \in DivByZeroOutcomes :
          AfterResample(call.result.token.startPoint, n,
                        Resample(Filled(n, <<0, 1>>), SubSignalFrom(input, firstInput),
                                 filter, numPhases, sampleRates,
                                 call.result.token.startPoint, divByZero))
    /\ produced' = produced + call.length
    /\ UNCHANGED <<input, filter, numPhases, sampleRates, rateVars, interp, designVars>>

NextResample == ResampleFirst \/ ResampleNext

SpecResample == InitResample /\ [][NextResample]_vars

(***************************************************************************)
(* HalfbandToHilbertEven as a state machine: the caller passes a halfband  *)
(* filter of 2 * size - 1 taps and an output buffer of any size.           *)
(***************************************************************************)
InitHilbert ==
    /\ pc = "start"
    /\ \E size \in 1..MaxOut, a \in SampleValues, fill \in FillValues :
          /\ halfband = Ramp(a, 2 * size - 1)
          /\ hilbert = [before |-> Filled(size, fill), result |-> NoHilbert.result]
    /\ halfFilter = <<>>
    /\ coefficients = NoLeastSquares
    /\ input = <<>>
    /\ filter = <<>>
    /\ numPhases = 0
    /\ rate = 0
    /\ expanded = NoCall
    /\ decimated = NoCall
    /\ interp = NoInterp
    /\ sampleRates = <<1, 1>>
    /\ firstInput = 0
    /\ produced = 0
    /\ call = NoResample

HilbertCall ==
    /\ pc = "start"
    /\ hilbert' = [hilbert EXCEPT !.result = HalfbandToHilbertEven(hilbert.before, halfband)]
    /\ pc' = "hilbert"
    /\ UNCHANGED <<halfband, halfFilter, coefficients, input, filter, numPhases,
                   rateVars, interp, resampleVars>>

NextHilbert == HilbertCall

SpecHilbert == InitHilbert /\ [][NextHilbert]_vars

(***************************************************************************)
(* FirLeastSquares as a state machine: the caller passes a buffer of any   *)
(* size holding anything; the solver returns any half filter of L values.  *)
(***************************************************************************)
InitLeastSquares ==
    /\ pc = "start"
    /\ \E size \in 1..MaxCoefficients, fill \in FillValues :
          /\ coefficients = [before |-> Filled(size, fill), result |-> NoLeastSquares.result]
          /\ halfFilter \in [1..HalfFilterSize(size) -> TapValues]
    /\ halfband = <<>>
    /\ hilbert = NoHilbert
    /\ input = <<>>
    /\ filter = <<>>
    /\ numPhases = 0
    /\ rate = 0
    /\ expanded = NoCall
    /\ decimated = NoCall
    /\ interp = NoInterp
    /\ sampleRates = <<1, 1>>
    /\ firstInput = 0
    /\ produced = 0
    /\ call = NoResample

LeastSquaresCall ==
    /\ pc = "start"
    /\ coefficients' = [coefficients EXCEPT
                           !.result = FirLeastSquares(coefficients.before, halfFilter)]
    /\ pc' = "designed"
    /\ UNCHANGED <<halfFilter, halfband, hilbert, input, filter, numPhases,
                   rateVars, interp, resampleVars>>

NextLeastSquares == LeastSquaresCall

SpecLeastSquares == InitLeastSquares /\ [][NextLeastSquares]_vars

(***************************************************************************)
(* Properties of Decimate and Expand, under SpecRate.                      *)
(***************************************************************************)
\* C8: Decimate(Expand(x, r), r) has the length of x and equals x element for
\* element, for every input x (also the empty one) and every rate r >= 1; both
\* size assertions hold and Decimate reads inside the expanded signal.
DecimateExpandRoundTrip ==
    pc = "roundtrip" =>
        /\ expanded.ok
        /\ decimated.ok
        /\ Len(decimated.output) = Len(input)
        /\ \A i \in 0..(Len(input) - 1) : At(decimated.output, i) = At(input, i)
        /\ \A k \in 1..Len(decimated.log) :
              decimated.log[k].readIdx < Len(expanded.output)

\* C8 happens: a round trip of a signal of two or more samples at a rate above 1.
RoundTripDone ==
    pc = "roundtrip" /\ Len(input) >= 2 /\ rate >= 2 /\ decimated.ok

\* C9: Expand gives an output of length N * r with output[i * r] = input[i] and
\* zero everywhere else, writes every output element exactly once and writes
\* nothing past the end of the output.
ExpandZeroStuffs ==
    pc \in {"expanded", "roundtrip"} =>
        LET out == expanded.output
            log == expanded.log
        IN /\ expanded.ok
           /\ Len(out) = Len(input) * rate
           /\ \A j \in 0..(Len(out) - 1) :
                 At(out, j) = IF j % rate = 0 THEN At(input, j \div rate) ELSE 0
           /\ \A j \in 0..(Len(out) - 1) :
                 Cardinality({k \in 1..Len(log) : log[k].pos = j}) = 1
           /\ \A k \in 1..Len(log) : log[k].pos >= 0 /\ log[k].pos < Len(out)

\* C9 happens: Expand has filled a buffer with zeros between two or more samples.
ExpandDone ==
    pc = "expanded" /\ Len(input) >= 2 /\ rate >= 2 /\ Len(expanded.log) > Len(input)

(***************************************************************************)
(* Properties of Interpolate, under SpecInterp.                            *)
(***************************************************************************)
RECURSIVE SeqSum(_)
SeqSum(s) == IF s = <<>> THEN 0 ELSE Head(s) + SeqSum(Tail(s))

\* h[j], zero outside the filter
Tap(h, j) == IF j >= 0 /\ j < Len(h) THEN At(h, j) ELSE 0

\* Sample n of the full convolution of the zero-stuffed input with the filter:
\* the sum over m of lrInput[m] * h[n - m * P].
FullConvolutionAt(lrInput, h, P, n) ==
    SeqSum([m \in 1..Len(lrInput) |-> lrInput[m] * Tap(h, n - (m - 1) * P)])

InterpolateWindowValid ==
    interp.hrOffset + Len(interp.before)
        <= Len(input) * numPhases + Len(filter) - 1

\* C2: on a zero-initialised output, every window (hrOffset, length) inside the
\* full convolution gets hrOutput[k] = sum over m of lrInput[m] * h[hrOffset + k -
\* m * P], whether or not P divides the filter length.
InterpolateIsConvolution ==
    (/\ pc = "interpolated"
     /\ \A k \in 1..Len(interp.before) : interp.before[k] = 0
     /\ InterpolateWindowValid)
    => /\ interp.result.ok
       /\ Len(interp.result.output) = Len(interp.before)
       /\ \A k \in 0..(Len(interp.before) - 1) :
             At(interp.result.output, k)
                 = FullConvolutionAt(input, filter, numPhases, interp.hrOffset + k)

\* C2 happens: a window away from the start, computed with ragged phases.
InterpolateRaggedDone ==
    /\ pc = "interpolated"
    /\ interp.result.ok
    /\ \A k \in 1..Len(interp.before) : interp.before[k] = 0
    /\ Len(filter) % numPhases # 0
    /\ numPhases >= 2
    /\ interp.hrOffset >= 1
    /\ Len(interp.result.log) >= 2
    /\ Len(input) >= 2

(***************************************************************************)
(* Properties of Resample and its continuation token, under SpecResample.  *)
(***************************************************************************)
CallMade == pc \in {"streaming", "aborted"}

\* the input buffer of the last call, and the output position after it
CallInput == SubSignalFrom(input, call.firstInput)
NextOutputSample == RAdd(call.startPoint, RInt(call.length))
Token == call.result.token
RatesPositive == Numerator(sampleRates) > 0

\* a sample of the chained call, its input indices counted from the start of
\* the whole input
ShiftCandidate(c, base) ==
    [c EXCEPT !.inputIndex = @ + base, !.first = @ + base, !.desiredFirst = @ + base]
ShiftSample(smp, base) ==
    [smp EXCEPT !.inputIndex = RAdd(@, RInt(base)),
                !.first = ShiftCandidate(@, base),
                !.second = ShiftCandidate(@, base)]

\* Resample of the whole input in one call from start point 0
OneShot(n) ==
    Resample(Filled(n, <<0, 1>>), input, filter, numPhases, sampleRates, <<0, 1>>, FALSE)

\* C1: after any number of chained calls that met their preconditions, every
\* sample of the last call has the phase indices, weights, clipped windows
\* (shifted by the buffer's position) and value of the same output sample of one
\* call that resamples the whole input from start point 0.
ChainedEqualsOneShot ==
    (pc = "streaming" /\ RatesPositive) =>
        LET one == OneShot(produced + call.length)
        IN /\ one.status = "ok"
           /\ \A k \in 1..call.length :
                 /\ ShiftSample(call.result.samples[k], call.firstInput)
                        = one.samples[produced + k]
                 /\ call.result.output[k] = one.output[produced + k]

\* C1 happens: a later chunk of two samples, on a buffer that begins inside the
\* input, from a fractional start point.
ChainedChunkDone ==
    /\ pc = "streaming"
    /\ RatesPositive
    /\ produced >= 2
    /\ call.length = 2
    /\ call.firstInput >= 1
    /\ Denominator(call.startPoint) > 1

\* C3: the token keeps the absolute input position: the input position of the
\* returned startPoint plus firstInputSample is the input position of
\* nextOutputSample, exactly. With startPoint' = a'/b', nextOutputSample = a/b
\* and sampleRates = n/d this is a'*n*b + firstInputSample*b'*d*b = a*n*b'.
TokenKeepsPosition ==
    (pc = "streaming" /\ RatesPositive) =>
        LET a == Numerator(NextOutputSample)
            b == Denominator(NextOutputSample)
            a2 == Numerator(Token.startPoint)
            b2 == Denominator(Token.startPoint)
            n == Numerator(sampleRates)
            d == Denominator(sampleRates)
        IN /\ b2 > 0
           /\ a2 * n * b + Token.firstInputSample * b2 * d * b = a * n * b2
           /\ RFrac(ResampleInputIndex(sampleRates, Token.startPoint))
                  = RFrac(ResampleInputIndex(sampleRates, NextOutputSample))

\* C3 happens: a token that moves the buffer and carries a fractional start point.
TokenMovesBuffer ==
    /\ pc = "streaming"
    /\ RatesPositive
    /\ Token.firstInputSample >= 1
    /\ Denominator(Token.startPoint) > 1
    /\ call.length >= 1

\* C4 as the specification states it: with sampleRates = n/d, output sample k is
\* evaluated at input position (startPoint + k) * d / n.
InputIndexIsOutputIndexOverRates ==
    (CallMade /\ RatesPositive) =>
        \A k \in 1..Len(call.result.samples) :
            LET x == Numerator(call.result.samples[k].inputIndex)
                y == Denominator(call.result.samples[k].inputIndex)
                a == Numerator(call.startPoint)
                b == Denominator(call.startPoint)
            IN x * b * Numerator(sampleRates)
                   = (a + (k - 1) * b) * Denominator(sampleRates) * y

\* C4 amended: with sampleRates = n/d, output sample k is evaluated at input
\* position (startPoint + k) * n / d: sampleRates is the source/target ratio.
InputIndexIsOutputIndexTimesRates ==
    (CallMade /\ RatesPositive) =>
        \A k \in 1..Len(call.result.samples) :
            LET x == Numerator(call.result.samples[k].inputIndex)
                y == Denominator(call.result.samples[k].inputIndex)
                a == Numerator(call.startPoint)
                b == Denominator(call.startPoint)
            IN x * b * Denominator(sampleRates)
                   = (a + (k - 1) * b) * Numerator(sampleRates) * y

\* C4 happens: two samples at a rate other than 1 from a fractional start point.
RateChangeDone ==
    /\ pc = "streaming"
    /\ Numerator(sampleRates) > 1
    /\ Denominator(sampleRates) > 1
    /\ Denominator(call.startPoint) > 1
    /\ Len(call.result.samples) = 2

\* C5 as the specification states it: the two weights add up to the phase count.
WeightsSumToPhaseCount ==
    CallMade =>
        \A k \in 1..Len(call.result.samples) :
            call.result.samples[k].first.weight + call.result.samples[k].second.weight
                = numPhases

\* C5 amended: with t = frac(frac(inputIndex) * P), the second weight is t's
\* numerator and the weights add up to t's denominator, which is at least 1, so
\* that secondWeight / (firstWeight + secondWeight) = t. With inputIndex = x/y,
\* t = ((x * P) mod y) / y.
WeightsSumToDenominator ==
    CallMade =>
        \A k \in 1..Len(call.result.samples) :
            LET smp == call.result.samples[k]
                y == Denominator(smp.inputIndex)
                tn == (Numerator(smp.inputIndex) * numPhases) % y
                sum == smp.first.weight + smp.second.weight
            IN /\ smp.first.weight >= 0
               /\ smp.second.weight >= 0
               /\ sum >= 1
               /\ smp.second.weight * y = tn * sum

\* C5 happens: a sample between two phases whose weights do not add up to P.
WeightsDifferFromPhaseCount ==
    /\ pc = "streaming"
    /\ \E k \in 1..Len(call.result.samples) :
          LET smp == call.result.samples[k]
          IN /\ smp.first.weight >= 1
             /\ smp.second.weight >= 1
             /\ smp.first.weight + smp.second.weight # numPhases

\* the preconditions the specification gives Resample
PreconditionViolated ==
    \/ ~RatesPositive
    \/ Numerator(call.startPoint) < 0
    \/ numPhases = 0
    \/ ~RLess(NextOutputSample,
              ResamplingLength(Len(CallInput), Len(filter), numPhases, sampleRates))

\* C6: a call with a violated precondition (sampleRates <= 0, startPoint < 0, no
\* phases, or startPoint + length >= ResamplingLength) fails one of the
\* precondition assertions and has written no output sample.
ViolatedPreconditionFailsFast ==
    (CallMade /\ PreconditionViolated) =>
        /\ call.result.status \in {"assert sampleRates", "assert startPoint",
                                   "assert FilterCount", "assert maxLength"}
        /\ call.result.log = <<>>

\* C7: at sampleRates 1/1 from start point 0 with the one-tap filter [1] in one
\* phase, every output length the precondition admits gives output[k] = input[k].
IdentityResample ==
    (/\ CallMade
     /\ sampleRates = <<1, 1>>
     /\ filter = <<1>>
     /\ numPhases = 1
     /\ call.startPoint = <<0, 1>>
     /\ call.firstInput = 0
     /\ call.length < Len(input))
    => /\ call.result.status = "ok"
       /\ \A k \in 0..(call.length - 1) :
             At(call.result.output, k) = <<At(input, k), 1>>

\* C7 happens: two samples copied by the identity filter.
IdentityDone ==
    /\ pc = "streaming"
    /\ sampleRates = <<1, 1>>
    /\ filter = <<1>>
    /\ numPhases = 1
    /\ call.startPoint = <<0, 1>>
    /\ call.firstInput = 0
    /\ call.length = 2
    /\ Len(call.result.log) = 2

\* the input indices a candidate's dot product reads
CandidateReads(c) == {m \in c.first..(c.first + c.count - 1) : TRUE}

\* C10: firstInputSample is max(0, floor(p - (F-1)/P)), p the input position of
\* nextOutputSample, and no output sample from nextOutputSample on reads, in
\* either candidate, an input sample before firstInputSample. With
\* nextOutputSample = a/b and sampleRates = n/d, p - (F-1)/P is
\* (a*n*P - (F-1)*b*d) / (b*d*P).
TokenStartsAtWindow ==
    (pc = "streaming" /\ RatesPositive) =>
        LET a == Numerator(NextOutputSample)
            b == Denominator(NextOutputSample)
            n == Numerator(sampleRates)
            d == Denominator(sampleRates)
            windowStart ==
                (a * n * numPhases - (Len(filter) - 1) * b * d) \div (b * d * numPhases)
        IN /\ Token.firstInputSample = Max(0, windowStart)
           /\ \A j \in 0..(MaxChunk + 1) :
                 LET smp == ResampleSample(CallInput, filter, numPhases, sampleRates,
                                           RAdd(NextOutputSample, RInt(j)))
                 IN \A m \in CandidateReads(smp.first) \cup CandidateReads(smp.second) :
                        m >= Token.firstInputSample

\* C10 happens: the next output sample reads the very sample the token names,
\* which is not the first of the buffer, through a filter of two or more taps.
TokenWindowTight ==
    /\ pc = "streaming"
    /\ RatesPositive
    /\ Token.firstInputSample >= 1
    /\ Len(filter) >= 2
    /\ LET smp == ResampleSample(CallInput, filter, numPhases, sampleRates, NextOutputSample)
       IN Token.firstInputSample \in CandidateReads(smp.first)

\* Sample n of the virtual high-rate signal as Interpolate computes it, zero
\* outside [0, N * P + F - 1).
HighRateAt(lrInput, h, P, n) ==
    IF n >= 0 /\ n < ConvolutionLength(Len(lrInput) * P, Len(h))
    THEN At(InterpolateAlloc(lrInput, h, P, n, 1).output, 0)
    ELSE 0

\* C11: every output sample of Resample is the cross-fade of two neighbours of
\* the high-rate signal v of Interpolate: with inputIndex = x/y, n = floor(x*P/y)
\* and t = ((x*P) mod y)/y, the first candidate is anchored at n div P in phase
\* n mod P and is v[n], the second at (n+1) div P in phase (n+1) mod P and is
\* v[n+1], and the output is (1 - t) * v[n] + t * v[n+1].
ResampleCrossFadesInterpolate ==
    (CallMade /\ RatesPositive) =>
        \A k \in 1..Len(call.result.samples) :
            LET smp == call.result.samples[k]
                x == Numerator(smp.inputIndex)
                y == Denominator(smp.inputIndex)
                n == (x * numPhases) \div y
                tn == (x * numPhases) % y
                vn == HighRateAt(CallInput, filter, numPhases, n)
                vn1 == HighRateAt(CallInput, filter, numPhases, n + 1)
            IN smp.ok =>
                /\ smp.first.inputIndex = n \div numPhases
                /\ smp.first.phaseIndex = n % numPhases
                /\ smp.first.val = vn
                /\ smp.second.inputIndex = (n + 1) \div numPhases
                /\ smp.second.phaseIndex = (n + 1) % numPhases
                /\ smp.second.val = vn1
                /\ (smp.second.inputIndex = smp.first.inputIndex + 1)
                       <=> (smp.second.phaseIndex = 0)
                /\ Numerator(smp.val) * y
                       = Denominator(smp.val) * ((y - tn) * vn + tn * vn1)

\* C11 happens: a sample strictly between two high-rate samples that differ,
\* the second one in the next input sample's phase 0.
CrossFadeAcrossWrap ==
    /\ pc = "streaming"
    /\ RatesPositive
    /\ numPhases >= 2
    /\ \E k \in 1..Len(call.result.samples) :
          LET smp == call.result.samples[k]
          IN /\ smp.ok
             /\ smp.first.weight >= 1
             /\ smp.second.weight >= 1
             /\ smp.second.phaseIndex = 0
             /\ smp.first.val # smp.second.val
             /\ smp.first.val # 0

\* the input samples that meet a filter tap at high-rate index n: the m in [0, N)
\* with 0 <= n - m * P < F
ClippedWindow(lrInput, h, P, n) ==
    {m \in 0..(Len(lrInput) - 1) : n - m * P >= 0 /\ n - m * P < Len(h)}

\* C12: a call of the in-place Interpolate leaves input, filter and phase count
\* as they were; it writes hrOutput[k] exactly when the clipped input window of
\* high-rate index hrOffset + k is not empty, once, and the value is the
\* convolution sample; every other element keeps the value it had before the
\* call, where the convolution is 0.
InterpolateWritesWindowOnly ==
    [][pc' = "interpolated" =>
        /\ input' = input
        /\ filter' = filter
        /\ numPhases' = numPhases
        /\ Len(interp'.result.output) = Len(interp'.before)
        /\ interp'.result.ok =>
              \A k \in 0..(Len(interp'.before) - 1) :
                  LET n == interp'.hrOffset + k
                      writes == {w \in 1..Len(interp'.result.log) :
                                    interp'.result.log[w].pos = k}
                  IN IF ClippedWindow(input, filter, numPhases, n) # {}
                     THEN /\ Cardinality(writes) = 1
                          /\ At(interp'.result.output, k)
                                 = FullConvolutionAt(input, filter, numPhases, n)
                     ELSE /\ writes = {}
                          /\ At(interp'.result.output, k) = At(interp'.before, k)
                          /\ FullConvolutionAt(input, filter, numPhases, n) = 0
    ]_vars

\* C12 happens: in a buffer that held a non-zero value, one element was written
\* and another, whose window is empty, kept what it held.
InterpolateKeptFill ==
    /\ pc = "interpolated"
    /\ interp.result.ok
    /\ Len(input) >= 1
    /\ Len(interp.result.log) = 1
    /\ \E k \in 0..(Len(interp.before) - 1) :
          /\ ClippedWindow(input, filter, numPhases, interp.hrOffset + k) = {}
          /\ At(interp.before, k) = 9
          /\ At(interp.result.output, k) = 9

\* C13: along a chain of calls with sampleRates = n/d > 0, every token has
\* firstInputSample >= 0 and a start point a/b >= 0 whose input position
\* a*n/(b*d) is below (F-1)/P + 1, and at least (F-1)/P when firstInputSample > 0.
TokenStartPointBounded ==
    (pc = "streaming" /\ RatesPositive) =>
        LET a == Numerator(Token.startPoint)
            b == Denominator(Token.startPoint)
            n == Numerator(sampleRates)
            d == Denominator(sampleRates)
        IN /\ b > 0
           /\ a >= 0
           /\ Token.firstInputSample >= 0
           /\ a * n * numPhases < (Len(filter) - 1 + numPhases) * b * d
           /\ Token.firstInputSample > 0 =>
                  a * n * numPhases >= (Len(filter) - 1) * b * d

\* C13 happens: the third or a later call of a chain returns a token that moves
\* the buffer again, after the stream has passed the bound on the start point.
TokenAfterManyChunks ==
    /\ pc = "streaming"
    /\ RatesPositive
    /\ produced >= 4
    /\ call.length >= 1
    /\ call.firstInput >= 1
    /\ Token.firstInputSample >= 1
    /\ (produced + call.length) * Numerator(sampleRates) * numPhases
           >= (Len(filter) - 1 + numPhases) * Denominator(sampleRates)

\* C14: a call that meets the preconditions (sampleRates > 0, startPoint >= 0,
\* P >= 1, startPoint + length < ResamplingLength) passes every assertion: for
\* every output sample both candidates have count >= 0, whatever the input
\* length, the filter length and the lengths of the phases.
PreconditionsKeepCountAssert ==
    (CallMade /\ ~PreconditionViolated) =>
        /\ call.result.status = "ok"
        /\ Len(call.result.samples) = call.length
        /\ \A k \in 1..Len(call.result.samples) :
              /\ call.result.samples[k].first.ok
              /\ call.result.samples[k].first.count >= 0
              /\ call.result.samples[k].second.ok
              /\ call.result.samples[k].second.count >= 0

\* C14 happens: with fewer taps than phases, a call that met the preconditions
\* evaluated a candidate in a phase without taps and a candidate anchored past
\* the end of the input, each on an empty sub-view.
TruncatedToEmptyView ==
    /\ pc = "streaming"
    /\ ~PreconditionViolated
    /\ Len(filter) < numPhases
    /\ \E k \in 1..Len(call.result.samples) :
          \E c \in {call.result.samples[k].first, call.result.samples[k].second} :
              c.phaseIndex >= Len(filter) /\ c.count = 0
    /\ \E k \in 1..Len(call.result.samples) :
          \E c \in {call.result.samples[k].first, call.result.samples[k].second} :
              c.inputIndex >= Len(CallInput) /\ c.count = 0

(***************************************************************************)
(* Properties of HalfbandToHilbertEven, under SpecHilbert.                 *)
(***************************************************************************)
\* C15: for every even out.Size() with halfband.Size() = 2 * out.Size() - 1,
\* in the single-step path (halfband.Size() <= 31) and in the chunked path,
\* every Decimate size assertion holds, the chunks cover [0, out.Size()) one
\* after the other without gap or overlap, every out[j] is written exactly once,
\* and out[j] = halfband[2j] * K[(2j - c + 15) mod 32] with c = halfband.Size() / 2.
HilbertChunksCoverOutput ==
    (pc = "hilbert" /\ Len(hilbert.before) % 2 = 0) =>
        LET chunks == hilbert.result.chunks
            size == Len(hilbert.before)
            c == Len(halfband) \div 2
            writes == HilbertWrites(chunks)
        IN /\ hilbert.result.status = "ok"
           /\ Len(hilbert.result.output) = size
           /\ IF Len(halfband) <= 31 THEN Len(chunks) = 1 ELSE Len(chunks) >= 2
           /\ \A k \in 1..Len(chunks) :
                 /\ chunks[k].ok
                 /\ Len(chunks[k].writes) = chunks[k].size
                 /\ \A w \in 1..Len(chunks[k].writes) :
                       /\ chunks[k].writes[w].pos >= chunks[k].offset
                       /\ chunks[k].writes[w].pos < chunks[k].offset + chunks[k].size
           /\ chunks[1].offset = 0
           /\ \A k \in 1..(Len(chunks) - 1) :
                 chunks[k + 1].offset = chunks[k].offset + chunks[k].size
           /\ chunks[Len(chunks)].offset + chunks[Len(chunks)].size = size
           /\ \A j \in 0..(size - 1) :
                 /\ Cardinality(WritesTo(writes, j)) = 1
                 /\ At(hilbert.result.output, j)
                        = At(halfband, 2 * j) * At(kernel, (2 * j - c + 15) % 32)

\* C15 happens: a filter long enough for a first chunk that is not empty, two or
\* more whole kernels and a last chunk.
HilbertManyChunks ==
    /\ pc = "hilbert"
    /\ hilbert.result.status = "ok"
    /\ Len(hilbert.result.chunks) >= 4
    /\ hilbert.result.chunks[1].size >= 1
    /\ At(hilbert.before, 0) = 9

(***************************************************************************)
(* Properties of FirLeastSquares, under SpecLeastSquares.                  *)
(***************************************************************************)
\* C16: for every coefficient buffer size S >= 1, odd or even, FirLeastSquares
\* assigns every index in [0, S) from the half filter, writes no index outside
\* [0, S), and leaves coefficients[i] = coefficients[S - 1 - i] for every i.
LeastSquaresFillsSymmetric ==
    pc = "designed" =>
        LET size == Len(coefficients.before)
            out == coefficients.result.output
            log == coefficients.result.log
        IN /\ Len(out) = size
           /\ \A i \in 0..(size - 1) : WritesTo(log, i) # {}
           /\ \A w \in 1..Len(log) : log[w].pos >= 0 /\ log[w].pos < size
           /\ \A i \in 0..(size - 1) : At(out, i) = At(out, size - 1 - i)

====
